---- MODULE Spec2Model ----
(***************************************************************************)
(* Model of src/src/05-objects-tasks.js: the css selector builder (class    *)
(* CssSelector, class CssCombine and the cssSelectorBuilder facade), and   *)
(* the utilities Rectangle, getJSON and fromJSON.                          *)
(*                                                                         *)
(* A JavaScript string is a sequence of one-character strings, so that     *)
(* '' is << >> and template-literal concatenation is \o.  A property that  *)
(* was never assigned is `undefined`; an assigned one is Some(value).      *)
(* Objects live in heaps (sequences) and are named by their index, so that *)
(* instance identity and array sharing are part of the state.              *)
(***************************************************************************)
EXTENDS Integers, Sequences, FiniteSets, TLC

\* Bounds of the exploration: the client creates at most MaxSelectors
\* CssSelector instances and stops calling once MaxOps calls have built
\* something (a fragment added, or a CssCombine created).
MaxSelectors == 2
MaxOps == 3
\* Rectangle sides are tried from -MaxDim..MaxDim, and 10 and 20.
MaxDim == 2
\* The plain data objects given to getJSON hold at most MaxFields fields.
MaxFields == 2

\* Argument strings the calls are tried with: '' (falsy) and 'a' (truthy).
Values == {<< >>, <<"a">>}
\* The four css combinators.
Combinators == {<<" ">>, <<"+">>, <<"~">>, <<">">>}

VARIABLES
    selectors,   \* heap of CssSelector instances
    arrays,      \* heap of the arrays the instances' list fields point to
    combines,    \* heap of CssCombine instances
    calls,       \* history: per CssSelector, the calls that returned normally
    last,        \* the most recent call: what was called, on what (for combine:
                 \* on which operands, with which combinator), and how it ended
    rectangle,   \* the object the client got from Rectangle(...), if any
    plain,       \* the plain data object the client holds, if any
    json,        \* the JSON text the client holds, if any
    revived,     \* the object the client got from fromJSON(...), if any
    ulast,       \* the most recent call of a utility: its name, arguments, result
    rendered     \* history: the builders stringify() was called on, where noted

utilVars == <<rectangle, plain, json, revived, ulast>>
vars == <<selectors, arrays, combines, calls, last,
          rectangle, plain, json, revived, ulast, rendered>>

-----------------------------------------------------------------------------
\* JavaScript values

undefined == << >>
Some(v) == <<v>>
\* if (x): undefined and '' are falsy, every other string is truthy.
Truthy(p) == p # undefined /\ Len(p[1]) > 0

DuplicateError == "Element, id and pseudo-element should not occur more then one time inside the selector"
OrderError == "Selector parts should be arranged in the following order: element, id, class, attribute, pseudo-class, pseudo-element"
NoError == "none"

\* Object references.
SelectorRef(i) == [kind |-> "CssSelector", idx |-> i]
CombineRef(k) == [kind |-> "CssCombine", idx |-> k]
NoRef == [kind |-> "none", idx |-> 0]

\* The memory the methods read and write.
M == [selectors |-> selectors, arrays |-> arrays, combines |-> combines]

\* How a call ends: the memory after it, the error thrown (if any), the
\* reference returned (methods returning `this`, constructors) and the string
\* returned (stringify).
Return(mem, ref) == [M |-> mem, thrown |-> NoError, ret |-> ref, str |-> << >>]
ReturnString(mem, s) == [M |-> mem, thrown |-> NoError, ret |-> NoRef, str |-> s]
Throw(mem, err) == [M |-> mem, thrown |-> err, ret |-> NoRef, str |-> << >>]

-----------------------------------------------------------------------------
\* class CssSelector

\* Fault variant of the constructor: the three arrays are created once and
\* shared by all instances (as if they were set on the prototype).
CssSelectorSharedArrays(mem) ==
    LET this == Len(mem.selectors) + 1
        obj == [cssElement |-> undefined, cssId |-> undefined,
                cssClasses |-> 1, cssAttribute |-> 2,
                cssPseudoClass |-> 3, cssPseudoElement |-> undefined]
    IN  Return([mem EXCEPT !.selectors = Append(@, obj),
                           !.arrays = IF @ = << >> THEN << << >>, << >>, << >> >>
                                      ELSE @],
               SelectorRef(this))

\* constructor(): three fresh empty arrays; the scalar fields stay unassigned.
CssSelector(mem) ==
    LET n == Len(mem.arrays)
        this == Len(mem.selectors) + 1
        obj == [cssElement |-> undefined, cssId |-> undefined,
                cssClasses |-> n + 1, cssAttribute |-> n + 2,
                cssPseudoClass |-> n + 3, cssPseudoElement |-> undefined]
    IN  Return([mem EXCEPT !.selectors = Append(@, obj),
                           !.arrays = @ \o << << >>, << >>, << >> >>],
               SelectorRef(this))

\* array.length of the array a list field points to
Length(mem, ref) == Len(mem.arrays[ref])

\* array.push(value)
Push(mem, ref, value) == [mem EXCEPT !.arrays[ref] = Append(@, value)]

\* Fault variant of element: the order test forgets the class list.
elementIgnoringClasses(mem, this, value) ==
    LET o == mem.selectors[this] IN
    IF Truthy(o.cssElement) THEN Throw(mem, DuplicateError)
    ELSE IF \/ Truthy(o.cssId)
            \/ Length(mem, o.cssAttribute) > 0
            \/ Length(mem, o.cssPseudoClass) > 0
            \/ Truthy(o.cssPseudoElement)
         THEN Throw(mem, OrderError)
    ELSE Return([mem EXCEPT !.selectors[this].cssElement = Some(value)],
                SelectorRef(this))

element(mem, this, value) ==
    LET o == mem.selectors[this] IN
    IF Truthy(o.cssElement) THEN Throw(mem, DuplicateError)
    ELSE IF \/ Truthy(o.cssId)
            \/ Length(mem, o.cssClasses) > 0
            \/ Length(mem, o.cssAttribute) > 0
            \/ Length(mem, o.cssPseudoClass) > 0
            \/ Truthy(o.cssPseudoElement)
         THEN Throw(mem, OrderError)
    ELSE Return([mem EXCEPT !.selectors[this].cssElement = Some(value)],
                SelectorRef(this))

id(mem, this, value) ==
    LET o == mem.selectors[this] IN
    IF Truthy(o.cssId) THEN Throw(mem, DuplicateError)
    ELSE IF \/ Length(mem, o.cssClasses) > 0
            \/ Length(mem, o.cssAttribute) > 0
            \/ Length(mem, o.cssPseudoClass) > 0
            \/ Truthy(o.cssPseudoElement)
         THEN Throw(mem, OrderError)
    ELSE Return([mem EXCEPT !.selectors[this].cssId = Some(value)],
                SelectorRef(this))

\* Fault variant of class: the value is pushed before the order test.
classPushBeforeTest(mem, this, value) ==
    LET o == mem.selectors[this]
        pushed == Push(mem, o.cssClasses, value)
    IN
    IF \/ Length(mem, o.cssAttribute) > 0
       \/ Length(mem, o.cssPseudoClass) > 0
       \/ Truthy(o.cssPseudoElement)
    THEN Throw(pushed, OrderError)
    ELSE Return(pushed, SelectorRef(this))

class(mem, this, value) ==
    LET o == mem.selectors[this] IN
    IF \/ Length(mem, o.cssAttribute) > 0
       \/ Length(mem, o.cssPseudoClass) > 0
       \/ Truthy(o.cssPseudoElement)
    THEN Throw(mem, OrderError)
    ELSE Return(Push(mem, o.cssClasses, value), SelectorRef(this))

\* Fault variant of attr: the fragment goes to a new instance, which is
\* returned in place of `this`.
attrReturningNew(mem, this, value) ==
    LET o == mem.selectors[this] IN
    IF \/ Length(mem, o.cssPseudoClass) > 0
       \/ Truthy(o.cssPseudoElement)
    THEN Throw(mem, OrderError)
    ELSE LET t == CssSelector(mem) IN
         Return(Push(t.M, t.M.selectors[t.ret.idx].cssAttribute, value), t.ret)

attr(mem, this, value) ==
    LET o == mem.selectors[this] IN
    IF \/ Length(mem, o.cssPseudoClass) > 0
       \/ Truthy(o.cssPseudoElement)
    THEN Throw(mem, OrderError)
    ELSE Return(Push(mem, o.cssAttribute, value), SelectorRef(this))

pseudoClass(mem, this, value) ==
    LET o == mem.selectors[this] IN
    IF Truthy(o.cssPseudoElement) THEN Throw(mem, OrderError)
    ELSE Return(Push(mem, o.cssPseudoClass, value), SelectorRef(this))

pseudoElement(mem, this, value) ==
    LET o == mem.selectors[this] IN
    IF Truthy(o.cssPseudoElement) THEN Throw(mem, DuplicateError)
    ELSE Return([mem EXCEPT !.selectors[this].cssPseudoElement = Some(value)],
                SelectorRef(this))

\* array.forEach((e) => { string += prefix + e + suffix })
RECURSIVE ForEach(_, _, _, _)
ForEach(string, array, prefix, suffix) ==
    IF array = << >> THEN string
    ELSE ForEach(string \o prefix \o Head(array) \o suffix, Tail(array),
                 prefix, suffix)

\* Fault variant of stringify: the class list is consumed (shift) while it
\* is rendered.
CssSelectorStringifyDraining(mem, this) ==
    LET o == mem.selectors[this]
        s0 == << >>
        s1 == IF Truthy(o.cssElement) THEN s0 \o o.cssElement[1] ELSE s0
        s2 == IF Truthy(o.cssId) THEN s1 \o <<"#">> \o o.cssId[1] ELSE s1
        s3 == ForEach(s2, mem.arrays[o.cssClasses], <<".">>, << >>)
        s4 == ForEach(s3, mem.arrays[o.cssAttribute], <<"[">>, <<"]">>)
        s5 == ForEach(s4, mem.arrays[o.cssPseudoClass], <<":">>, << >>)
        s6 == IF Truthy(o.cssPseudoElement)
              THEN s5 \o <<":", ":">> \o o.cssPseudoElement[1] ELSE s5
    IN  ReturnString([mem EXCEPT !.arrays[o.cssClasses] = << >>], s6)

\* Fault variant of stringify: the builder is consumed, all its fields are
\* reset once the string is built.
CssSelectorStringifyConsuming(mem, this) ==
    LET o == mem.selectors[this]
        s0 == << >>
        s1 == IF Truthy(o.cssElement) THEN s0 \o o.cssElement[1] ELSE s0
        s2 == IF Truthy(o.cssId) THEN s1 \o <<"#">> \o o.cssId[1] ELSE s1
        s3 == ForEach(s2, mem.arrays[o.cssClasses], <<".">>, << >>)
        s4 == ForEach(s3, mem.arrays[o.cssAttribute], <<"[">>, <<"]">>)
        s5 == ForEach(s4, mem.arrays[o.cssPseudoClass], <<":">>, << >>)
        s6 == IF Truthy(o.cssPseudoElement)
              THEN s5 \o <<":", ":">> \o o.cssPseudoElement[1] ELSE s5
    IN  ReturnString([mem EXCEPT !.selectors[this].cssElement = undefined,
                                 !.selectors[this].cssId = undefined,
                                 !.selectors[this].cssPseudoElement = undefined,
                                 !.arrays[o.cssClasses] = << >>,
                                 !.arrays[o.cssAttribute] = << >>,
                                 !.arrays[o.cssPseudoClass] = << >>], s6)

\* CssSelector.prototype.stringify
CssSelectorStringify(mem, this) ==
    LET o == mem.selectors[this]
        s0 == << >>
        s1 == IF Truthy(o.cssElement) THEN s0 \o o.cssElement[1] ELSE s0
        s2 == IF Truthy(o.cssId) THEN s1 \o <<"#">> \o o.cssId[1] ELSE s1
        s3 == ForEach(s2, mem.arrays[o.cssClasses], <<".">>, << >>)
        s4 == ForEach(s3, mem.arrays[o.cssAttribute], <<"[">>, <<"]">>)
        s5 == ForEach(s4, mem.arrays[o.cssPseudoClass], <<":">>, << >>)
        s6 == IF Truthy(o.cssPseudoElement)
              THEN s5 \o <<":", ":">> \o o.cssPseudoElement[1] ELSE s5
    IN  ReturnString(mem, s6)

-----------------------------------------------------------------------------
\* class CssCombine

\* Fault variant of the constructor: the combinator is not padded.
CssCombineUnpadded(mem, string1, combinator, string2) ==
    LET this == Len(mem.combines) + 1
        obj == [cssString |-> string1 \o combinator \o string2]
    IN  Return([mem EXCEPT !.combines = Append(@, obj)], CombineRef(this))

\* Fault variant of the constructor: cssString is one property shared by all
\* instances (as if it were set on the prototype).
CssCombineSharedString(mem, string1, combinator, string2) ==
    LET this == Len(mem.combines) + 1
        obj == [cssString |-> string1 \o <<" ">> \o combinator \o <<" ">> \o string2]
    IN  Return([mem EXCEPT !.combines =
                    Append([k \in 1..Len(@) |-> obj], obj)],
               CombineRef(this))

\* string.trimStart() for the space character.
RECURSIVE TrimStart(_)
TrimStart(string) ==
    IF string # << >> /\ Head(string) = " " THEN TrimStart(Tail(string)) ELSE string

\* Fault variant of the constructor: leading spaces of the first operand are
\* dropped.
CssCombineTrimStart(mem, string1, combinator, string2) ==
    LET this == Len(mem.combines) + 1
        obj == [cssString |-> TrimStart(string1 \o <<" ">>) \o combinator
                                  \o <<" ">> \o string2]
    IN  Return([mem EXCEPT !.combines = Append(@, obj)], CombineRef(this))

\* constructor(string1, combinator, string2)
CssCombine(mem, string1, combinator, string2) ==
    LET this == Len(mem.combines) + 1
        obj == [cssString |-> string1 \o <<" ">> \o combinator \o <<" ">> \o string2]
    IN  Return([mem EXCEPT !.combines = Append(@, obj)], CombineRef(this))

\* CssCombine.prototype.stringify
CssCombineStringify(mem, this) ==
    ReturnString(mem, mem.combines[this].cssString)

\* selector.stringify() on either kind of object
stringify(mem, ref) ==
    IF ref.kind = "CssSelector" THEN CssSelectorStringify(mem, ref.idx)
    ELSE CssCombineStringify(mem, ref.idx)

-----------------------------------------------------------------------------
\* const cssSelectorBuilder

\* The six factories: const t = new CssSelector(); return t.<method>(value);
builderElement(mem, value) ==
    LET t == CssSelector(mem) IN element(t.M, t.ret.idx, value)

builderId(mem, value) ==
    LET t == CssSelector(mem) IN id(t.M, t.ret.idx, value)

builderClass(mem, value) ==
    LET t == CssSelector(mem) IN class(t.M, t.ret.idx, value)

builderAttr(mem, value) ==
    LET t == CssSelector(mem) IN attr(t.M, t.ret.idx, value)

builderPseudoClass(mem, value) ==
    LET t == CssSelector(mem) IN pseudoClass(t.M, t.ret.idx, value)

builderPseudoElement(mem, value) ==
    LET t == CssSelector(mem) IN pseudoElement(t.M, t.ret.idx, value)

\* Fault variant of combine: a combinator other than ' ', '+', '~', '>' is
\* rejected.
combineValidating(mem, selector1, combinator, selector2) ==
    LET a == stringify(mem, selector1)
        b == stringify(a.M, selector2)
    IN  IF combinator \in Combinators
        THEN CssCombine(b.M, a.str, combinator, b.str)
        ELSE Throw(mem, "Unknown combinator")

\* combine(selector1, combinator, selector2): the operands are stringified
\* left to right, then the CssCombine is constructed from the two strings.
combine(mem, selector1, combinator, selector2) ==
    LET a == stringify(mem, selector1)
        b == stringify(a.M, selector2)
    IN  CssCombine(b.M, a.str, combinator, b.str)

-----------------------------------------------------------------------------
\* function Rectangle(width, height)

\* The object literal { width, height, getArea() { ... } }.
Rectangle(width, height) == [width |-> width, height |-> height]

\* Fault variant of getArea: the width is used twice.
getAreaOfSquare(this) == this.width * this.width

\* getArea() { return this.width * this.height; }
\* (the sides tried are small integers, on which the product of doubles is exact)
getArea(this) == this.width * this.height

-----------------------------------------------------------------------------
\* JSON data, JSON.stringify and JSON.parse as getJSON and fromJSON use them

\* A data value: a number, a string, true, false or null.
Num(n) == [t |-> "number", n |-> n, s |-> << >>]
Str(s) == [t |-> "string", n |-> 0, s |-> s]
True == [t |-> "true", n |-> 0, s |-> << >>]
False == [t |-> "false", n |-> 0, s |-> << >>]
Null == [t |-> "null", n |-> 0, s |-> << >>]

\* An object: its own fields in creation order, and its prototype.
ObjectPrototype == "Object.prototype"
Object(fields, proto) == [fields |-> fields, proto |-> proto]

DigitChars == <<"0", "1", "2", "3", "4", "5", "6", "7", "8", "9">>

\* The decimal digits of a natural number.
RECURSIVE Digits(_)
Digits(n) ==
    IF n < 10 THEN <<DigitChars[n + 1]>>
    ELSE Digits(n \div 10) \o <<DigitChars[(n % 10) + 1]>>

\* The characters of a string between its quotes: '"' and '\' are escaped.
RECURSIVE Escape(_)
Escape(chars) ==
    IF chars = << >> THEN << >>
    ELSE (IF Head(chars) \in {"\"", "\\"} THEN <<"\\", Head(chars)>>
          ELSE <<Head(chars)>>) \o Escape(Tail(chars))

Quote(chars) == <<"\"">> \o Escape(chars) \o <<"\"">>

SerializeValue(v) ==
    CASE v.t = "number" -> IF v.n < 0 THEN <<"-">> \o Digits(-v.n) ELSE Digits(v.n)
      [] v.t = "string" -> Quote(v.s)
      [] v.t = "true" -> <<"t", "r", "u", "e">>
      [] v.t = "false" -> <<"f", "a", "l", "s", "e">>
      [] v.t = "null" -> <<"n", "u", "l", "l">>

RECURSIVE SerializeMembers(_)
SerializeMembers(fields) ==
    IF fields = << >> THEN << >>
    ELSE Quote(Head(fields).key) \o <<":">> \o SerializeValue(Head(fields).value)
             \o (IF Tail(fields) = << >> THEN << >> ELSE <<",">>)
             \o SerializeMembers(Tail(fields))

\* JSON.stringify(obj) of an object of data values: the prototype is not
\* written.
JSONstringify(obj) == <<"{">> \o SerializeMembers(obj.fields) \o <<"}">>

\* The string that starts after the quote at text[i - 1]: its characters and
\* the position after its closing quote.
RECURSIVE ScanString(_, _, _)
ScanString(text, i, acc) ==
    IF text[i] = "\"" THEN [val |-> acc, next |-> i + 1]
    ELSE IF text[i] = "\\" THEN ScanString(text, i + 2, Append(acc, text[i + 1]))
    ELSE ScanString(text, i + 1, Append(acc, text[i]))

\* The natural number whose digits start at text[i].
RECURSIVE ScanDigits(_, _, _)
ScanDigits(text, i, acc) ==
    IF i <= Len(text) /\ \E d \in 1..10 : DigitChars[d] = text[i]
    THEN ScanDigits(text, i + 1,
                    acc * 10 + (CHOOSE d \in 1..10 : DigitChars[d] = text[i]) - 1)
    ELSE [val |-> acc, next |-> i]

\* The data value that starts at text[i], and the position after it.
ParseValue(text, i) ==
    CASE text[i] = "\"" ->
             LET r == ScanString(text, i + 1, << >>)
             IN  [val |-> Str(r.val), next |-> r.next]
      [] text[i] = "t" -> [val |-> True, next |-> i + 4]
      [] text[i] = "f" -> [val |-> False, next |-> i + 5]
      [] text[i] = "n" -> [val |-> Null, next |-> i + 4]
      [] text[i] = "-" ->
             LET r == ScanDigits(text, i + 1, 0)
             IN  [val |-> Num(-r.val), next |-> r.next]
      [] OTHER ->
             LET r == ScanDigits(text, i, 0)
             IN  [val |-> Num(r.val), next |-> r.next]

\* obj[key] = value while parsing: a key met again keeps its place and takes
\* the new value.
Define(fields, key, value) ==
    IF \E a \in 1..Len(fields) : fields[a].key = key
    THEN [a \in 1..Len(fields) |->
             IF fields[a].key = key THEN [key |-> key, value |-> value]
             ELSE fields[a]]
    ELSE Append(fields, [key |-> key, value |-> value])

\* The members that start at text[i], up to the closing brace.
RECURSIVE ParseMembers(_, _, _)
ParseMembers(text, i, fields) ==
    IF text[i] = "}" THEN fields
    ELSE LET k == ScanString(text, i + 1, << >>)
             v == ParseValue(text, k.next + 1)
             now == Define(fields, k.val, v.val)
         IN  IF text[v.next] = "," THEN ParseMembers(text, v.next + 1, now)
             ELSE ParseMembers(text, v.next, now)

\* JSON.parse(text) of the text of an object (without white space): a new
\* object whose prototype is Object.prototype.
JSONparse(text) == Object(ParseMembers(text, 2, << >>), ObjectPrototype)

\* function getJSON(obj)
getJSON(obj) == JSONstringify(obj)

\* Fault variant of fromJSON: the prototype is not set.
fromJSONKeepingPrototype(proto, text) == JSONparse(text)

\* function fromJSON(proto, json): Object.setPrototypeOf(obj, proto) keeps
\* the own fields.
fromJSON(proto, text) ==
    LET obj == JSONparse(text) IN Object(obj.fields, proto)

-----------------------------------------------------------------------------
\* The state machine: a client that calls the facade and the objects it got.

Methods == {"element", "id", "class", "attr", "pseudoClass", "pseudoElement"}

Refs == {SelectorRef(i) : i \in 1..Len(selectors)}
            \cup {CombineRef(k) : k \in 1..Len(combines)}

RECURSIVE SumLen(_)
SumLen(logs) == IF logs = << >> THEN 0 ELSE Len(Head(logs)) + SumLen(Tail(logs))

\* Calls counted so far: successful fragment calls, combines, and the first
\* stringify() on each builder where the history notes it.
OpsUsed == SumLen(calls) + Len(combines) + Cardinality(rendered)

Init ==
    /\ selectors = << >>
    /\ arrays = << >>
    /\ combines = << >>
    /\ calls = << >>
    /\ last = [op |-> "none", self |-> NoRef, other |-> NoRef, combinator |-> << >>,
               thrown |-> NoError, ret |-> NoRef, str |-> << >>]
    /\ rectangle = undefined
    /\ plain = undefined
    /\ json = undefined
    /\ revived = undefined
    /\ ulast = [op |-> "none", args |-> << >>, ret |-> 0]
    /\ rendered = {}

\* The memory after the call, and the history: a fragment call that returned
\* normally is logged on the instance `target` it was made on.
Commit(r, op, target, v) ==
    /\ selectors' = r.M.selectors
    /\ arrays' = r.M.arrays
    /\ combines' = r.M.combines
    /\ calls' = [j \in 1..Len(r.M.selectors) |->
                    LET old == IF j <= Len(calls) THEN calls[j] ELSE << >> IN
                    IF r.thrown = NoError /\ op \in Methods /\ j = target
                    THEN Append(old, [op |-> op, value |-> v]) ELSE old]
    /\ UNCHANGED utilVars

\* selectors[i].<op>(v)
MethodCall(op, r, i, v) ==
    /\ OpsUsed < MaxOps
    /\ Commit(r, op, i, v)
    /\ UNCHANGED rendered
    /\ last' = [op |-> op, self |-> SelectorRef(i), other |-> NoRef,
                combinator |-> << >>, thrown |-> r.thrown, ret |-> r.ret, str |-> r.str]

\* cssSelectorBuilder.<op>(v)
FactoryCall(op, r, v) ==
    /\ OpsUsed < MaxOps
    /\ Len(selectors) < MaxSelectors
    /\ Commit(r, op, Len(selectors) + 1, v)
    /\ UNCHANGED rendered
    /\ last' = [op |-> "cssSelectorBuilder", self |-> NoRef, other |-> NoRef,
                combinator |-> << >>, thrown |-> r.thrown, ret |-> r.ret, str |-> r.str]

Element(i, v) == MethodCall("element", element(M, i, v), i, v)
Id(i, v) == MethodCall("id", id(M, i, v), i, v)
Class(i, v) == MethodCall("class", class(M, i, v), i, v)
Attr(i, v) == MethodCall("attr", attr(M, i, v), i, v)
PseudoClass(i, v) == MethodCall("pseudoClass", pseudoClass(M, i, v), i, v)
PseudoElement(i, v) == MethodCall("pseudoElement", pseudoElement(M, i, v), i, v)

BuilderElement(v) == FactoryCall("element", builderElement(M, v), v)
BuilderId(v) == FactoryCall("id", builderId(M, v), v)
BuilderClass(v) == FactoryCall("class", builderClass(M, v), v)
BuilderAttr(v) == FactoryCall("attr", builderAttr(M, v), v)
BuilderPseudoClass(v) == FactoryCall("pseudoClass", builderPseudoClass(M, v), v)
BuilderPseudoElement(v) == FactoryCall("pseudoElement", builderPseudoElement(M, v), v)

\* ref.stringify()
StringifyCall(ref) ==
    LET r == stringify(M, ref) IN
    /\ OpsUsed < MaxOps
    /\ Commit(r, "stringify", 0, << >>)
    /\ last' = [op |-> "stringify", self |-> ref, other |-> NoRef,
                combinator |-> << >>, thrown |-> r.thrown, ret |-> r.ret, str |-> r.str]

Stringify(ref) == StringifyCall(ref) /\ UNCHANGED rendered

\* ref.stringify(), noted in the history of the builder.
StringifyNoted(ref) == StringifyCall(ref) /\ rendered' = rendered \cup {ref}

\* cssSelectorBuilder.combine(left, c, right)
Combine(left, c, right) ==
    LET r == combine(M, left, c, right) IN
    /\ OpsUsed < MaxOps
    /\ Commit(r, "combine", 0, c)
    /\ UNCHANGED rendered
    /\ last' = [op |-> "combine", self |-> left, other |-> right,
                combinator |-> c, thrown |-> r.thrown, ret |-> r.ret, str |-> r.str]

\* The selector builder alone: fragment calls and stringify.
Next ==
    \/ \E i \in 1..Len(selectors), v \in Values : Element(i, v)
    \/ \E i \in 1..Len(selectors), v \in Values : Id(i, v)
    \/ \E i \in 1..Len(selectors), v \in Values : Class(i, v)
    \/ \E i \in 1..Len(selectors), v \in Values : Attr(i, v)
    \/ \E i \in 1..Len(selectors), v \in Values : PseudoClass(i, v)
    \/ \E i \in 1..Len(selectors), v \in Values : PseudoElement(i, v)
    \/ \E v \in Values : BuilderElement(v)
    \/ \E v \in Values : BuilderId(v)
    \/ \E v \in Values : BuilderClass(v)
    \/ \E v \in Values : BuilderAttr(v)
    \/ \E v \in Values : BuilderPseudoClass(v)
    \/ \E v \in Values : BuilderPseudoElement(v)
    \/ \E ref \in Refs : Stringify(ref)

Spec == Init /\ [][Next]_vars

\* The whole facade: the same calls, and combine on everything built so far.
NextCombine ==
    \/ \E i \in 1..Len(selectors), v \in Values : Element(i, v)
    \/ \E i \in 1..Len(selectors), v \in Values : Id(i, v)
    \/ \E i \in 1..Len(selectors), v \in Values : Class(i, v)
    \/ \E i \in 1..Len(selectors), v \in Values : Attr(i, v)
    \/ \E i \in 1..Len(selectors), v \in Values : PseudoClass(i, v)
    \/ \E i \in 1..Len(selectors), v \in Values : PseudoElement(i, v)
    \/ \E v \in Values : BuilderElement(v)
    \/ \E v \in Values : BuilderId(v)
    \/ \E v \in Values : BuilderClass(v)
    \/ \E v \in Values : BuilderAttr(v)
    \/ \E v \in Values : BuilderPseudoClass(v)
    \/ \E v \in Values : BuilderPseudoElement(v)
    \/ \E ref \in Refs : Stringify(ref)
    \/ \E left \in Refs, right \in Refs, c \in Combinators : Combine(left, c, right)

SpecCombine == Init /\ [][NextCombine]_vars

\* The strings given to combine as its combinator: a combinator, the empty
\* string and a string that is no combinator.
Tokens == {<<">">>, << >>, <<",">>}

\* The calls that build objects, combine called with any of these strings.
NextTokens ==
    \/ \E i \in 1..Len(selectors), v \in Values : Element(i, v)
    \/ \E i \in 1..Len(selectors), v \in Values : Id(i, v)
    \/ \E i \in 1..Len(selectors), v \in Values : Class(i, v)
    \/ \E i \in 1..Len(selectors), v \in Values : Attr(i, v)
    \/ \E i \in 1..Len(selectors), v \in Values : PseudoClass(i, v)
    \/ \E i \in 1..Len(selectors), v \in Values : PseudoElement(i, v)
    \/ \E v \in Values : BuilderElement(v)
    \/ \E v \in Values : BuilderId(v)
    \/ \E v \in Values : BuilderClass(v)
    \/ \E v \in Values : BuilderAttr(v)
    \/ \E v \in Values : BuilderPseudoClass(v)
    \/ \E v \in Values : BuilderPseudoElement(v)
    \/ \E left \in Refs, right \in Refs, c \in Tokens : Combine(left, c, right)

SpecTokens == Init /\ [][NextTokens]_vars

\* The selector builder alone, with the history of its stringify() calls.
NextLifecycle ==
    \/ \E i \in 1..Len(selectors), v \in Values : Element(i, v)
    \/ \E i \in 1..Len(selectors), v \in Values : Id(i, v)
    \/ \E i \in 1..Len(selectors), v \in Values : Class(i, v)
    \/ \E i \in 1..Len(selectors), v \in Values : Attr(i, v)
    \/ \E i \in 1..Len(selectors), v \in Values : PseudoClass(i, v)
    \/ \E i \in 1..Len(selectors), v \in Values : PseudoElement(i, v)
    \/ \E v \in Values : BuilderElement(v)
    \/ \E v \in Values : BuilderId(v)
    \/ \E v \in Values : BuilderClass(v)
    \/ \E v \in Values : BuilderAttr(v)
    \/ \E v \in Values : BuilderPseudoClass(v)
    \/ \E v \in Values : BuilderPseudoElement(v)
    \/ \E ref \in Refs : StringifyNoted(ref)

SpecLifecycle == Init /\ [][NextLifecycle]_vars

-----------------------------------------------------------------------------
\* The state machine of a client of Rectangle.

selectorVars == <<selectors, arrays, combines, calls, last, rendered>>

Dims == ((-MaxDim)..MaxDim) \cup {10, 20}

\* const r = new Rectangle(width, height)
NewRectangle(width, height) ==
    /\ rectangle' = Some(Rectangle(width, height))
    /\ ulast' = [op |-> "Rectangle", args |-> <<width, height>>, ret |-> 0]
    /\ UNCHANGED <<selectorVars, plain, json, revived>>

\* r.width = width
AssignWidth(width) ==
    /\ rectangle # undefined
    /\ rectangle' = Some([rectangle[1] EXCEPT !.width = width])
    /\ ulast' = [op |-> "width", args |-> <<width>>, ret |-> 0]
    /\ UNCHANGED <<selectorVars, plain, json, revived>>

\* r.height = height
AssignHeight(height) ==
    /\ rectangle # undefined
    /\ rectangle' = Some([rectangle[1] EXCEPT !.height = height])
    /\ ulast' = [op |-> "height", args |-> <<height>>, ret |-> 0]
    /\ UNCHANGED <<selectorVars, plain, json, revived>>

\* r.getArea()
GetArea ==
    /\ rectangle # undefined
    /\ ulast' = [op |-> "getArea", args |-> << >>, ret |-> getArea(rectangle[1])]
    /\ UNCHANGED <<rectangle, selectorVars, plain, json, revived>>

NextRectangle ==
    \/ \E width \in Dims, height \in Dims : NewRectangle(width, height)
    \/ \E width \in Dims : AssignWidth(width)
    \/ \E height \in Dims : AssignHeight(height)
    \/ GetArea

SpecRectangle == Init /\ [][NextRectangle]_vars

-----------------------------------------------------------------------------
\* The state machine of a client of getJSON and fromJSON.

Keys == {<<"a">>, <<"b", "\"">>, <<"r", "a", "d", "i", "u", "s">>}

DataValues == {Num(0), Num(10), Num(-3), Str(<< >>), Str(<<"a", "\"">>),
               Str(<<"\\">>), True, False, Null}

Members == {[key |-> k, value |-> v] : k \in Keys, v \in DataValues}

\* The objects { key: value, ... } of at most MaxFields fields.
PlainObjects ==
    {Object(f, ObjectPrototype) :
        f \in {g \in UNION {[1..n -> Members] : n \in 0..MaxFields} :
                  \A a, b \in 1..Len(g) : a # b => g[a].key # g[b].key}}

Prototypes == {ObjectPrototype, "Circle.prototype"}

\* '{"radius":10}'
RadiusText ==
    <<"{", "\"", "r", "a", "d", "i", "u", "s", "\"", ":", "1", "0", "}">>

\* The client holds one plain data object.
InitJSON ==
    /\ selectors = << >>
    /\ arrays = << >>
    /\ combines = << >>
    /\ calls = << >>
    /\ last = [op |-> "none", self |-> NoRef, other |-> NoRef, combinator |-> << >>,
               thrown |-> NoError, ret |-> NoRef, str |-> << >>]
    /\ rectangle = undefined
    /\ plain \in {Some(o) : o \in PlainObjects}
    /\ json = undefined
    /\ revived = undefined
    /\ ulast = [op |-> "none", args |-> << >>, ret |-> 0]
    /\ rendered = {}

\* json = getJSON(plain)
GetJSON ==
    /\ json' = Some(getJSON(plain[1]))
    /\ ulast' = [op |-> "getJSON", args |-> << >>, ret |-> 0]
    /\ UNCHANGED <<selectorVars, rectangle, plain, revived>>

\* json = '{"radius":10}'
TextLiteral ==
    /\ json' = Some(RadiusText)
    /\ ulast' = [op |-> "text", args |-> << >>, ret |-> 0]
    /\ UNCHANGED <<selectorVars, rectangle, plain, revived>>

\* revived = fromJSON(proto, json)
FromJSON(proto) ==
    /\ json # undefined
    /\ revived' = Some(fromJSON(proto, json[1]))
    /\ ulast' = [op |-> "fromJSON", args |-> <<proto>>, ret |-> 0]
    /\ UNCHANGED <<selectorVars, rectangle, plain, json>>

NextJSON ==
    \/ GetJSON
    \/ TextLiteral
    \/ \E proto \in Prototypes : FromJSON(proto)

SpecJSON == InitJSON /\ [][NextJSON]_vars

-----------------------------------------------------------------------------
\* Vocabulary of the properties

\* The fixed category order element < id < class < attribute < pseudo-class
\* < pseudo-element.
Rank(op) ==
    CASE op = "element" -> 1
      [] op = "id" -> 2
      [] op = "class" -> 3
      [] op = "attr" -> 4
      [] op = "pseudoClass" -> 5
      [] op = "pseudoElement" -> 6

NonDecreasing(log) ==
    \A a, b \in 1..Len(log) : a < b => Rank(log[a].op) <= Rank(log[b].op)

\* Some call of category op has returned normally in this history.
HasCall(log, op) == \E a \in 1..Len(log) : log[a].op = op

\* The fields of instance i, the list fields by their contents.
View(mem, i) ==
    LET o == mem.selectors[i] IN
    [cssElement |-> o.cssElement, cssId |-> o.cssId,
     cssClasses |-> mem.arrays[o.cssClasses],
     cssAttribute |-> mem.arrays[o.cssAttribute],
     cssPseudoClass |-> mem.arrays[o.cssPseudoClass],
     cssPseudoElement |-> o.cssPseudoElement]

\* The singleton field a singleton category stores into.
Stored(mem, i, op) ==
    CASE op = "element" -> mem.selectors[i].cssElement
      [] op = "id" -> mem.selectors[i].cssId
      [] op = "pseudoElement" -> mem.selectors[i].cssPseudoElement

\* The call selectors[i].<op>(v) made in memory mem.
Invoke(mem, op, i, v) ==
    CASE op = "element" -> element(mem, i, v)
      [] op = "id" -> id(mem, i, v)
      [] op = "class" -> class(mem, i, v)
      [] op = "attr" -> attr(mem, i, v)
      [] op = "pseudoClass" -> pseudoClass(mem, i, v)
      [] op = "pseudoElement" -> pseudoElement(mem, i, v)

\* A step of the state machine was the call `op` on instance i.
Called(op, i) == last'.op = op /\ last'.self = SelectorRef(i)

-----------------------------------------------------------------------------
\* C1: on every builder the categories of the calls that returned without
\* throwing form a non-decreasing sequence in the order element < id < class
\* < attribute < pseudo-class < pseudo-element, whatever the string arguments
\* (the empty string included).
C1_OrderInvariant ==
    \A i \in 1..Len(calls) : NonDecreasing(calls[i])

\* C2: once element (resp. id, pseudoElement) has returned normally on a
\* builder, every later call of the same method on it throws the duplicate
\* error and leaves the stored value as it was.
C2_SingletonNeverReplaced ==
    [][\A i \in 1..Len(selectors) : \A op \in {"element", "id", "pseudoElement"} :
          (HasCall(calls[i], op) /\ Called(op, i))
              => /\ last'.thrown = DuplicateError
                 /\ Stored(M', i, op) = Stored(M, i, op)]_vars

\* C3 as stated: element(...) on a builder on which a class(...) call has
\* succeeded always throws the order error, never the duplicate error.
C3_ElementAfterClassOrderError ==
    [][\A i \in 1..Len(selectors) :
          (HasCall(calls[i], "class") /\ Called("element", i))
              => last'.thrown = OrderError]_vars

\* C3 as amended: element(...) on a builder on which a class(...) call has
\* succeeded always throws and never stores its value: the duplicate error
\* when the builder holds a non-empty element value, the order error otherwise.
C3_ElementAfterClassThrows ==
    [][\A i \in 1..Len(selectors) :
          (HasCall(calls[i], "class") /\ Called("element", i))
              => /\ last'.thrown = IF Truthy(selectors[i].cssElement)
                                   THEN DuplicateError ELSE OrderError
                 /\ View(M', i) = View(M, i)]_vars

\* An element call on a builder holding both an element and a class.
C3_Witness ==
    /\ last.op = "element"
    /\ last.thrown = DuplicateError
    /\ HasCall(calls[last.self.idx], "class")
    /\ HasCall(calls[last.self.idx], "element")

\* The text one call contributes to the rendered selector.
Fragment(op, v) ==
    CASE op = "element" -> v
      [] op = "id" -> <<"#">> \o v
      [] op = "class" -> <<".">> \o v
      [] op = "attr" -> <<"[">> \o v \o <<"]">>
      [] op = "pseudoClass" -> <<":">> \o v
      [] op = "pseudoElement" -> <<":", ":">> \o v

\* The fragments of the calls of one category, in call order.
RECURSIVE CategoryText(_, _)
CategoryText(log, op) ==
    IF log = << >> THEN << >>
    ELSE (IF Head(log).op = op THEN Fragment(op, Head(log).value) ELSE << >>)
             \o CategoryText(Tail(log), op)

ExpectedRender(log) ==
    CategoryText(log, "element") \o CategoryText(log, "id")
        \o CategoryText(log, "class") \o CategoryText(log, "attr")
        \o CategoryText(log, "pseudoClass") \o CategoryText(log, "pseudoElement")

\* C4: after successful calls in category order, stringify() returns the
\* element value, '#'+id, '.'+name per class, '['+expr+']' per attribute,
\* ':'+name per pseudo-class and '::'+pseudoElement, in this order; every
\* category that received a call contributes its marker and value.
C4_RenderFormat ==
    \A i \in 1..Len(selectors) :
        NonDecreasing(calls[i])
            => stringify(M, SelectorRef(i)).str = ExpectedRender(calls[i])

\* C5: a call to element/id/class/attr/pseudoClass/pseudoElement that throws
\* leaves every field of the builder as it was, so stringify() returns the
\* same string and every call is accepted or rejected as before.
C5_StateUnchangedOnError ==
    [][\A i \in 1..Len(selectors) :
          (last'.self = SelectorRef(i) /\ last'.op \in Methods
                                       /\ last'.thrown # NoError)
              => /\ selectors' = selectors
                 /\ arrays' = arrays
                 /\ stringify(M', SelectorRef(i)).str = stringify(M, SelectorRef(i)).str
                 /\ \A op \in Methods, v \in Values :
                        Invoke(M', op, i, v).thrown = Invoke(M, op, i, v).thrown]_vars

\* A call has thrown on a builder that renders a non-empty selector.
C5_Witness ==
    /\ last.op \in Methods
    /\ last.thrown # NoError
    /\ Len(stringify(M, last.self).str) >= 3

\* C6: combine(left, c, right) returns a new object whose stringify() is
\* left.stringify() + ' ' + c + ' ' + right.stringify() for every combinator,
\* also when an operand is itself a combine result.
C6_CombineFormat ==
    [][last'.op = "combine"
          => /\ last'.thrown = NoError
             /\ last'.ret = CombineRef(Len(combines) + 1)
             /\ stringify(M', last'.ret).str =
                    stringify(M, last'.self).str \o <<" ">> \o last'.combinator
                        \o <<" ">> \o stringify(M, last'.other).str]_vars

\* A combine result combined again with the descendant combinator ' ': the
\* result holds three consecutive spaces.
C6_Witness ==
    /\ last.op = "combine"
    /\ last.self.kind = "CssCombine"
    /\ last.other.kind = "CssSelector"
    /\ last.combinator = <<" ">>
    /\ LET t == combines[last.ret.idx].cssString IN
       \E n \in 1..(Len(t) - 2) : t[n] = " " /\ t[n + 1] = " " /\ t[n + 2] = " "

\* C7: stringify() changes no field of the builder, and calling it again
\* returns the same string.
C7_StringifyPure ==
    /\ [][last'.op = "stringify"
             => /\ selectors' = selectors
                /\ arrays' = arrays
                /\ combines' = combines
                /\ calls' = calls]_vars
    /\ [](last.op = "stringify"
             => /\ last.thrown = NoError
                /\ stringify(M, last.self).str = last.str
                /\ stringify(stringify(M, last.self).M, last.self).str = last.str)

\* stringify() has rendered a builder holding classes.
C7_Witness ==
    /\ last.op = "stringify"
    /\ last.self.kind = "CssSelector"
    /\ Len(arrays[selectors[last.self.idx].cssClasses]) >= 2
    /\ Len(last.str) >= 4

\* The fields of a builder that was created and received the calls of log.
RECURSIVE ReplayFrom(_, _)
ReplayFrom(mem, log) ==
    IF log = << >> THEN mem
    ELSE ReplayFrom(Invoke(mem, Head(log).op, 1, Head(log).value).M, Tail(log))

Replay(log) ==
    View(ReplayFrom(CssSelector([selectors |-> << >>, arrays |-> << >>,
                                 combines |-> << >>]).M, log), 1)

\* The fields of a builder holding the single fragment (op, v).
SingleFragment(op, v) ==
    [cssElement |-> IF op = "element" THEN Some(v) ELSE undefined,
     cssId |-> IF op = "id" THEN Some(v) ELSE undefined,
     cssClasses |-> IF op = "class" THEN <<v>> ELSE << >>,
     cssAttribute |-> IF op = "attr" THEN <<v>> ELSE << >>,
     cssPseudoClass |-> IF op = "pseudoClass" THEN <<v>> ELSE << >>,
     cssPseudoElement |-> IF op = "pseudoElement" THEN Some(v) ELSE undefined]

\* C8: a factory call returns a new builder holding that single fragment and
\* leaves all other builders as they were; a call on one builder leaves all
\* other builders as they were; so each builder's fields and rendering are
\* those of a builder that alone received the calls made on it.
C8_FreshAndIsolated ==
    /\ [][/\ last'.op = "cssSelectorBuilder"
             => /\ last'.thrown = NoError
                /\ last'.ret = SelectorRef(Len(selectors) + 1)
                /\ Len(selectors') = Len(selectors) + 1
                /\ Len(calls'[last'.ret.idx]) = 1
                /\ View(M', last'.ret.idx) =
                       SingleFragment(calls'[last'.ret.idx][1].op,
                                      calls'[last'.ret.idx][1].value)
          /\ \A j \in 1..Len(selectors) :
                last'.self # SelectorRef(j) => View(M', j) = View(M, j)]_vars
    /\ [](\A i \in 1..Len(selectors) : View(M, i) = Replay(calls[i]))

\* Two builders, each holding a class, the first one called after the second
\* one was created.
C8_Witness ==
    /\ Len(selectors) = 2
    /\ last.op = "class"
    /\ last.thrown = NoError
    /\ last.self = SelectorRef(1)
    /\ Len(arrays[selectors[1].cssClasses]) = 1
    /\ Len(arrays[selectors[2].cssClasses]) = 1
    /\ arrays[selectors[1].cssClasses] # arrays[selectors[2].cssClasses]

\* C9: the string a combine result returns is fixed when combine is called:
\* no later call on any builder, no later combine and no stringify() changes
\* it.
C9_CombineSnapshot ==
    [][\A k \in 1..Len(combines) :
          /\ k <= Len(combines')
          /\ combines'[k] = combines[k]
          /\ stringify(M', CombineRef(k)).str = stringify(M, CombineRef(k)).str]_vars

\* The only builder was combined with itself and then changed: the combine
\* result still holds the old rendering.
C9_Witness ==
    /\ Len(selectors) = 1
    /\ Len(combines) = 1
    /\ last.op \in Methods
    /\ last.thrown = NoError
    /\ LET s == stringify(M, SelectorRef(1)).str IN
       \A c \in Combinators :
           combines[1].cssString # s \o <<" ">> \o c \o <<" ">> \o s

\* C10: a call to element/id/class/attr/pseudoClass/pseudoElement that does
\* not throw returns the instance it was called on, and creates no instance.
C10_Chainable ==
    /\ [][last'.op \in Methods => Len(selectors') = Len(selectors)]_vars
    /\ [](last.op \in Methods /\ last.thrown = NoError => last.ret = last.self)

\* A chain of three calls on one instance.
C10_Witness ==
    /\ last.op \in Methods
    /\ last.thrown = NoError
    /\ Len(selectors) = 1
    /\ Len(calls[1]) = 3
    /\ last.ret = SelectorRef(1)

-----------------------------------------------------------------------------
\* C11: Rectangle(width, height) returns an object whose width and height
\* are the arguments; getArea() returns the product of the object's current
\* width and height (also after a side was assigned) and changes nothing;
\* Rectangle(10, 20).getArea() is 200.
C11_RectangleArea ==
    /\ [](ulast.op = "Rectangle"
             => /\ rectangle[1].width = ulast.args[1]
                /\ rectangle[1].height = ulast.args[2])
    /\ [][/\ ulast'.op = "width"
             => /\ rectangle'[1].width = ulast'.args[1]
                /\ rectangle'[1].height = rectangle[1].height
          /\ ulast'.op = "height"
             => /\ rectangle'[1].height = ulast'.args[1]
                /\ rectangle'[1].width = rectangle[1].width
          /\ ulast'.op = "getArea"
             => /\ rectangle' = rectangle
                /\ ulast'.ret = rectangle[1].width * rectangle[1].height]_vars
    /\ []((ulast.op = "getArea" /\ rectangle = Some(Rectangle(10, 20)))
             => ulast.ret = 200)

\* getArea() has returned 200 on a rectangle of sides 10 and 20.
C11_Witness ==
    /\ ulast.op = "getArea"
    /\ rectangle = Some(Rectangle(10, 20))
    /\ ulast.ret = 200

C13_ExactGuards ==
    [][\A i \in 1..Len(selectors) : \A op \in Methods :
          Called(op, i)
              => /\ last'.thrown = NoError
                     <=> /\ \A a \in 1..Len(calls[i]) :
                                Rank(calls[i][a].op) <= Rank(op)
                         /\ op \in {"element", "id", "pseudoElement"}
                                => ~HasCall(calls[i], op)
                 /\ op \in {"class", "attr", "pseudoClass"}
                        => last'.thrown # DuplicateError
                 /\ op = "pseudoElement" => last'.thrown # OrderError]_vars

\* The memory holding one builder that was created, received the calls of
\* log and was never rendered.
Unrendered(log) ==
    ReplayFrom(CssSelector([selectors |-> << >>, arrays |-> << >>,
                            combines |-> << >>]).M, log)

\* C14 as stated: once stringify() has been called on a builder, no later
\* call to element/id/class/attr/pseudoClass/pseudoElement changes the
\* builder's fields or the string a later stringify() returns.
C14_ConsumedByStringify ==
    [][\A i \in 1..Len(selectors) : \A op \in Methods :
          (SelectorRef(i) \in rendered /\ Called(op, i))
              => /\ View(M', i) = View(M, i)
                 /\ stringify(M', SelectorRef(i)).str =
                        stringify(M, SelectorRef(i)).str]_vars

\* C14 as amended: stringify() does not consume the builder. A call to
\* element/id/class/attr/pseudoClass/pseudoElement made after stringify() is
\* accepted or rejected as on a builder that received the same successful
\* calls and was never rendered, and it leaves the fields and the rendering
\* of such a builder.
C14_ReusableAfterStringify ==
    [][\A i \in 1..Len(selectors) : \A op \in Methods :
          (SelectorRef(i) \in rendered /\ Called(op, i))
              => /\ \A v \in Values :
                        last'.thrown = Invoke(Unrendered(calls[i]), op, 1, v).thrown
                 /\ View(M', i) = View(Unrendered(calls'[i]), 1)
                 /\ stringify(M', SelectorRef(i)).str =
                        stringify(Unrendered(calls'[i]), SelectorRef(1)).str]_vars

\* A builder was created with an element, rendered, and then took a class:
\* it now renders the element and the class.
C14_Witness ==
    /\ SelectorRef(1) \in rendered
    /\ last.op = "class"
    /\ last.self = SelectorRef(1)
    /\ last.thrown = NoError
    /\ calls[1] = <<[op |-> "element", value |-> <<"a">>],
                    [op |-> "class", value |-> <<"a">>]>>
    /\ stringify(M, SelectorRef(1)).str = <<"a", ".", "a">>

\* C15: a call that returns normally with value v appends its fragment to
\* the rendering: stringify() after the call is stringify() before the call
\* followed by v, '#'+v, '.'+v, '['+v+']', ':'+v or '::'+v, for every string
\* v, the empty string included.
C15_AppendOnly ==
    [][\A i \in 1..Len(selectors) : \A op \in Methods :
          (Called(op, i) /\ last'.thrown = NoError)
              => stringify(M', SelectorRef(i)).str =
                     stringify(M, SelectorRef(i)).str
                         \o Fragment(op, calls'[i][Len(calls'[i])].value)]_vars

\* C16: nested combine is associative in the rendered string: for operands
\* a, b, c and combinators c1, c2, combine(combine(a, c1, b), c2, c) and
\* combine(a, c1, combine(b, c2, c)) render the same string. Here
\* combine(a, c1, b) is the call just made, c is any object built so far.
C16_CombineAssociative ==
    last.op = "combine"
        => \A c \in Refs : \A c2 \in Combinators :
               LET leftNested == combine(M, last.ret, c2, c)
                   inner == combine(M, last.other, c2, c)
                   rightNested == combine(inner.M, last.self, last.combinator,
                                          inner.ret)
               IN  /\ leftNested.thrown = NoError
                   /\ rightNested.thrown = NoError
                   /\ stringify(leftNested.M, leftNested.ret).str =
                          stringify(rightNested.M, rightNested.ret).str

\* combine(a, c1, b) was called with a builder a that renders the empty
\* string and a combine result b.
C16_Witness ==
    /\ last.op = "combine"
    /\ last.self.kind = "CssSelector"
    /\ stringify(M, last.self).str = << >>
    /\ last.other.kind = "CssCombine"
    /\ last.ret # last.other

\* C17: combine, whatever string is given as the combinator (one of ' ',
\* '+', '~', '>' or not), never throws, leaves every field of both operands
\* (and of every other object) as it was, and the operands accept and reject
\* afterwards the calls they accepted and rejected before.
C17_CombineNoEffect ==
    [][last'.op = "combine"
          => /\ last'.thrown = NoError
             /\ selectors' = selectors
             /\ arrays' = arrays
             /\ \A k \in 1..Len(combines) : combines'[k] = combines[k]
             /\ \A ref \in {last'.self, last'.other} :
                    /\ stringify(M', ref).str = stringify(M, ref).str
                    /\ ref.kind = "CssSelector"
                           => /\ View(M', ref.idx) = View(M, ref.idx)
                              /\ \A op \in Methods, v \in Values :
                                     Invoke(M', op, ref.idx, v).thrown =
                                         Invoke(M, op, ref.idx, v).thrown]_vars

\* combine was called with a string that is no combinator on a builder that
\* received two calls, and returned a new object.
C17_Witness ==
    /\ last.op = "combine"
    /\ last.combinator \notin Combinators
    /\ last.thrown = NoError
    /\ last.self.kind = "CssSelector"
    /\ Len(calls[last.self.idx]) = 2
    /\ last.ret = CombineRef(Len(combines))

====
